---------------------------- MODULE Spec2Model ----------------------------
(***************************************************************************)
(* Model of meeko/analysis/fingerprint_interactions.py: the hydrogen-bond  *)
(* validator, the per-pair interaction classifier, the accumulator kept    *)
(* by FingerprintInteractions.run and the one-hot encoder to_dataframe.    *)
(*                                                                         *)
(* Coordinates are exact rationals: a point is [n |-> <<x, y, z>>, d |-> k]*)
(* standing for (x/k, y/k, z/k).  Distances are compared by their squares  *)
(* and angles by their cosines, so every comparison the code makes on      *)
(* floats is made here on integers, in exact arithmetic.                   *)
(***************************************************************************)
EXTENDS Integers, Sequences, FiniteSets, TLC

VARIABLES
    _data,                  \* self._data: the pose records, in order
    _unique_interactions,   \* self._unique_interactions: the vocabulary
    call,                   \* the latest method call on the object and its argument
    ret,                    \* what that call raised and returned
    hb_in,      \* arguments of the _is_valid_hydrogen_bond call under study
    hb_out,     \* its outcome, "pending" before the call
    pair_in,    \* the ligand-side atom and the receptor atom under study
    pair_out    \* the labels the classifier emitted for them

vars == <<_data, _unique_interactions, call, ret, hb_in, hb_out, pair_in, pair_out>>

\* Python's None where a point is expected: no point has denominator 0
None == [n |-> <<0, 0, 0>>, d |-> 0]

-----------------------------------------------------------------------------
(* Vectors and points *)

Pt(x, y, z) == [n |-> <<x, y, z>>, d |-> 1]

Dot(u, v) == u[1] * v[1] + u[2] * v[2] + u[3] * v[3]

\* a - b on numpy arrays
VSub(a, b) ==
    [n |-> <<a.n[1] * b.d - b.n[1] * a.d,
             a.n[2] * b.d - b.n[2] * a.d,
             a.n[3] * b.d - b.n[3] * a.d>>,
     d |-> a.d * b.d]

\* np.linalg.norm(v) = 0
IsZero(v) == Dot(v.n, v.n) = 0

\* np.linalg.norm(v) <= tenths / 10
NormLE(v, tenths) == 100 * Dot(v.n, v.n) <= tenths * tenths * v.d * v.d

-----------------------------------------------------------------------------
(* Angles.  An angle is one of                                             *)
(*   [kind |-> "nan"]                    the float NaN                     *)
(*   [kind |-> "rad", dot, nn]           arccos(dot / sqrt(nn)) radians    *)
(*   [kind |-> "deg", dot, nn]           the same angle in degrees         *)
(*   [kind |-> "lit", v]                 a literal number of degrees       *)

NaN == [kind |-> "nan"]

Lit(v) == [kind |-> "lit", v |-> v]

\* v / np.linalg.norm(v) divides by zero for a zero vector: every component
\* becomes NaN (numpy warns, it does not raise), and NaN goes through
\* np.dot and np.arccos unchanged.
_compute_angle(v1, v2) ==
    IF IsZero(v1) \/ IsZero(v2)
    THEN NaN
    ELSE [kind |-> "rad",
          dot  |-> Dot(v1.n, v2.n),
          nn   |-> Dot(v1.n, v1.n) * Dot(v2.n, v2.n)]

\* np.degrees
degrees(a) ==
    IF a.kind = "rad" THEN [kind |-> "deg", dot |-> a.dot, nn |-> a.nn] ELSE a

\* cos(thr)^2 as <<p, q>> for the thresholds the criteria use; both have cos <= 0
CosSq(thr) == IF thr = 90 THEN <<0, 1>> ELSE <<1, 4>>

\* angle >= thr, thr in degrees (90 or 120).  A comparison with NaN is False;
\* an angle left in radians is at most pi, below either threshold.
AngleGE(a, thr) ==
    CASE a.kind = "lit" -> a.v >= thr
      [] a.kind = "nan" -> FALSE
      [] a.kind = "rad" -> FALSE
      [] a.kind = "deg" -> /\ a.dot <= 0
                           /\ CosSq(thr)[2] * a.dot * a.dot >= CosSq(thr)[1] * a.nn

-----------------------------------------------------------------------------
(* _is_valid_hydrogen_bond *)

_is_valid_hydrogen_bond_distance_to_don_1(atom_acc_1, atom_acc_2, atom_don_1, atom_don_2, hb_criteria) ==
    IF NormLE(VSub(atom_acc_1, IF atom_don_1 = None THEN atom_don_2 ELSE atom_don_1),
              hb_criteria[1])
    THEN LET angle_1 == IF atom_don_1 = None THEN Lit(180)
                        ELSE degrees(_compute_angle(VSub(atom_don_2, atom_don_1),
                                                    VSub(atom_acc_1, atom_don_1)))
             angle_2 == IF atom_acc_2 = None THEN Lit(180)
                        ELSE degrees(_compute_angle(VSub(atom_acc_2, atom_acc_1),
                                VSub(IF atom_don_1 = None THEN atom_don_2 ELSE atom_don_1,
                                     atom_acc_1)))
         IN  AngleGE(angle_1, hb_criteria[2]) /\ AngleGE(angle_2, hb_criteria[3])
    ELSE FALSE

_is_valid_hydrogen_bond(atom_acc_1, atom_acc_2, atom_don_1, atom_don_2, hb_criteria) ==
    IF NormLE(VSub(atom_acc_1, atom_don_2), hb_criteria[1])
    THEN LET angle_1 ==
                 CASE atom_don_1 # None /\ atom_acc_2 # None ->
                        degrees(_compute_angle(VSub(atom_don_2, atom_don_1),
                                               VSub(atom_acc_1, atom_don_1)))
                   [] atom_don_1 = None -> Lit(180)
                   [] atom_don_1 # None /\ atom_acc_2 = None ->
                        degrees(_compute_angle(VSub(atom_don_2, atom_don_1),
                                               VSub(atom_acc_1, atom_don_1)))
             angle_2 ==
                 CASE atom_don_1 # None /\ atom_acc_2 # None ->
                        degrees(_compute_angle(VSub(atom_acc_2, atom_acc_1),
                                               VSub(atom_don_1, atom_acc_1)))
                   [] atom_don_1 = None ->
                        degrees(_compute_angle(VSub(atom_acc_2, atom_acc_1),
                                               VSub(atom_don_2, atom_acc_1)))
                   [] atom_don_1 # None /\ atom_acc_2 = None -> Lit(180)
         IN  AngleGE(angle_1, hb_criteria[2]) /\ AngleGE(angle_2, hb_criteria[3])
    ELSE FALSE

-----------------------------------------------------------------------------
(* Atoms, structures and the interaction classifier of run *)

\* Raised by a dict lookup with a key the dict does not hold
KeyError == "KeyError"

atom_property_definitions ==
    [t \in {"H", "C", "A", "N", "P", "S", "Br", "I", "F"} |-> "vdw"] @@
    [t \in {"NA", "OA", "SA", "OS", "NS"} |-> "hb_acc"] @@
    [t \in {"HD", "HS"} |-> "hb_don"] @@
    [t \in {"Cl"} |-> "non-metal"] @@
    [t \in {"Mg", "Ca", "Fe", "Zn", "Mn"} |-> "metal"] @@
    [t \in {"W"} |-> "water"] @@
    [t \in {"G0", "G1", "G2", "G3", "CG0", "CG1", "CG2", "CG3"} |-> "glue"]

\* atom_property_definitions[atom_type], with a default instead of the KeyError
AtomProperty_default_vdw(atom_type) ==
    IF atom_type \in DOMAIN atom_property_definitions
    THEN atom_property_definitions[atom_type]
    ELSE "vdw"

\* atom_property_definitions[atom_type]
AtomProperty(atom_type) ==
    IF atom_type \in DOMAIN atom_property_definitions
    THEN atom_property_definitions[atom_type]
    ELSE KeyError

\* self._criteria; distances in tenths of an angstrom
_criteria ==
    [hb_acc |-> <<32, 120, 90>>, hb_don |-> <<32, 120, 90>>,
     all |-> <<42>>, vdw |-> <<42>>,
     water |-> <<32, 120, 90>>,
     reactive |-> <<20>>]

\* self._max_distance, in tenths of an angstrom
_max_distance == 42

\* An atom record of a PDBQTReceptor or PDBQTMolecule
Atom(idx, atom_type, xyz, chain, resid, name, role) ==
    [idx |-> idx, atom_type |-> atom_type, xyz |-> xyz, chain |-> chain,
     resid |-> resid, name |-> name, role |-> role]

RECURSIVE SumXYZ(_)
SumXYZ(atoms) ==
    IF atoms = <<>> THEN <<0, 0, 0>>
    ELSE LET h == Head(atoms).xyz.n
             t == SumXYZ(Tail(atoms))
         IN  <<h[1] + t[1], h[2] + t[2], h[3] + t[3]>>

\* np.mean(atoms['xyz'], axis=0); atom coordinates have denominator 1
MeanXYZ(atoms) == [n |-> SumXYZ(atoms), d |-> Len(atoms)]

\* structure.neighbor_atoms(idx): one list of bonded indices per index asked
neighbor_atoms(structure, idx) == <<structure.bonds[idx]>>

\* structure.atoms(indices)
atoms(structure, indices) ==
    [i \in 1..Len(indices) |-> structure.atoms[indices[i]]]

\* structure.closest_atoms_from_positions(xyz, max_distance[, roles])
closest_atoms_from_positions(structure, xyz, max_distance, roles) ==
    SelectSeq(structure.atoms,
              LAMBDA a : a.role \in roles /\ NormLE(VSub(a.xyz, xyz), max_distance))

\* pose.atoms_by_properties(roles)
atoms_by_properties(pose, roles) ==
    SelectSeq(pose.atoms, LAMBDA a : a.role \in roles)

\* pose.has_water_molecules()
has_water_molecules(pose) == \E i \in 1..Len(pose.atoms) : pose.atoms[i].role = "water"

\* molecule.has_flexible_residues()
has_flexible_residues(molecule) ==
    \E p \in 1..Len(molecule.poses) : \E i \in 1..Len(molecule.poses[p].atoms) :
        molecule.poses[p].atoms[i].role = "flexible_residue"

\* lines 139-141 and 150-152: the centroid of the atoms bound to atom idx
HBVector(structure, idx) ==
    MeanXYZ(atoms(structure, neighbor_atoms(structure, idx)[1]))

\* Interaction labels: 'v_%s:%d', 'h_%s:%d:%s' and 'w_%s:%d', kept as the
\* tuple of the prefix and the formatted fields
VdwLabel(rec_atom) == <<"v", rec_atom.chain, rec_atom.resid>>
HBLabel(rec_atom) == <<"h", rec_atom.chain, rec_atom.resid, rec_atom.name>>
WaterLabel(rec_atom) == <<"w", rec_atom.chain, rec_atom.resid>>

\* The tmp_hb, tmp_vdw and tmp_water lists of one pose
EmptyTmp == [raised |-> "none", hb |-> <<>>, vdw |-> <<>>, water |-> <<>>]

\* ClassifyPair with the atom name put into the water label too
ClassifyPair_water_with_name(lig_atom, lig_atom_property, lig_hb_vector, rec_atom, rec_atom_property, rec_hb_vector, tmp) ==
        IF lig_atom_property = "vdw" /\ rec_atom_property = "vdw"
        THEN [tmp EXCEPT !.vdw = Append(@, VdwLabel(rec_atom))]
        ELSE IF lig_atom_property = "hb_don" /\ rec_atom_property = "hb_acc"
        THEN IF _is_valid_hydrogen_bond(rec_atom.xyz, rec_hb_vector,
                                        lig_atom.xyz, lig_hb_vector,
                                        _criteria[lig_atom_property])
             THEN [tmp EXCEPT !.hb = Append(@, HBLabel(rec_atom))] ELSE tmp
        ELSE IF lig_atom_property = "hb_acc" /\ rec_atom_property = "hb_don"
        THEN IF _is_valid_hydrogen_bond(lig_atom.xyz, lig_hb_vector,
                                        rec_atom.xyz, rec_hb_vector,
                                        _criteria[lig_atom_property])
             THEN [tmp EXCEPT !.hb = Append(@, HBLabel(rec_atom))] ELSE tmp
        ELSE IF lig_atom_property = "water"
        THEN LET good_hb ==
                     IF rec_atom_property = "hb_don"
                     THEN _is_valid_hydrogen_bond(lig_atom.xyz, None,
                                                  rec_atom.xyz, rec_hb_vector,
                                                  _criteria[lig_atom_property])
                     ELSE IF rec_atom_property = "hb_acc"
                     THEN _is_valid_hydrogen_bond(rec_atom.xyz, rec_hb_vector,
                                                  None, lig_atom.xyz,
                                                  _criteria[lig_atom_property])
                     ELSE FALSE
             IN  IF good_hb
                 THEN [tmp EXCEPT !.water = Append(@, <<"w", rec_atom.chain,
                                                        rec_atom.resid, rec_atom.name>>)]
                 ELSE tmp
        ELSE tmp

\* Lines 154-192: the case match on the two atom properties
ClassifyPair(lig_atom, lig_atom_property, lig_hb_vector, rec_atom, rec_atom_property, rec_hb_vector, tmp) ==
        IF lig_atom_property = "vdw" /\ rec_atom_property = "vdw"
        THEN [tmp EXCEPT !.vdw = Append(@, VdwLabel(rec_atom))]
        ELSE IF lig_atom_property = "hb_don" /\ rec_atom_property = "hb_acc"
        THEN IF _is_valid_hydrogen_bond(rec_atom.xyz, rec_hb_vector,
                                        lig_atom.xyz, lig_hb_vector,
                                        _criteria[lig_atom_property])
             THEN [tmp EXCEPT !.hb = Append(@, HBLabel(rec_atom))] ELSE tmp
        ELSE IF lig_atom_property = "hb_acc" /\ rec_atom_property = "hb_don"
        THEN IF _is_valid_hydrogen_bond(lig_atom.xyz, lig_hb_vector,
                                        rec_atom.xyz, rec_hb_vector,
                                        _criteria[lig_atom_property])
             THEN [tmp EXCEPT !.hb = Append(@, HBLabel(rec_atom))] ELSE tmp
        ELSE IF lig_atom_property = "water"
        THEN LET good_hb ==
                     IF rec_atom_property = "hb_don"
                     THEN _is_valid_hydrogen_bond(lig_atom.xyz, None,
                                                  rec_atom.xyz, rec_hb_vector,
                                                  _criteria[lig_atom_property])
                     ELSE IF rec_atom_property = "hb_acc"
                     THEN _is_valid_hydrogen_bond(rec_atom.xyz, rec_hb_vector,
                                                  None, lig_atom.xyz,
                                                  _criteria[lig_atom_property])
                     ELSE FALSE
             IN  IF good_hb
                 THEN [tmp EXCEPT !.water = Append(@, WaterLabel(rec_atom))]
                 ELSE tmp
        ELSE tmp

-----------------------------------------------------------------------------
(* The structures the object is run on: one rigid receptor, given to       *)
(* __init__, and a pool of docked molecules.  Coordinates in angstrom.     *)

Pose(name, pose_id, atoms_, bonds) ==
    [name |-> name, pose_id |-> pose_id, atoms |-> atoms_, bonds |-> bonds]

\* Residue A:1 carries an acceptor O bound to CA, residue B:5 a donor H bound
\* to N, and C:9 is a copper ion, an atom type the property table does not hold.
Receptor ==
    [atoms |-> <<Atom(1, "C",  Pt(0, 0, 0),  "A", 1, "CA", "receptor"),
                 Atom(2, "OA", Pt(1, 0, 0),  "A", 1, "O",  "receptor"),
                 Atom(3, "N",  Pt(0, 10, 0), "B", 5, "N",  "receptor"),
                 Atom(4, "HD", Pt(1, 10, 0), "B", 5, "H",  "receptor"),
                 Atom(5, "Cu", Pt(0, 20, 0), "C", 9, "CU", "receptor")>>,
     bonds |-> << <<2>>, <<1>>, <<4>>, <<3>>, <<>> >>]

LigAtom(idx, atom_type, xyz) == Atom(idx, atom_type, xyz, "", 0, "L", "ligand")

\* Two carbons in contact with A:1, then the same carbons far from the receptor
Lig1 ==
    [name |-> "lig1",
     poses |-> <<Pose("lig1", 0, <<LigAtom(1, "C", Pt(3, 0, 0)),
                                   LigAtom(2, "C", Pt(3, 1, 0))>>,
                      << <<2>>, <<1>> >>),
                 Pose("lig1", 1, <<LigAtom(1, "C", Pt(10, 5, 0)),
                                   LigAtom(2, "C", Pt(10, 6, 0))>>,
                      << <<2>>, <<1>> >>)>>]

\* A donor N-H pointing at the acceptor of A:1, then bent away from it
Lig2 ==
    [name |-> "lig2",
     poses |-> <<Pose("lig2", 0, <<LigAtom(1, "N", Pt(4, 0, 0)),
                                   LigAtom(2, "HD", Pt(3, 0, 0))>>,
                      << <<2>>, <<1>> >>),
                 Pose("lig2", 1, <<LigAtom(1, "N", Pt(2, 1, 0)),
                                   LigAtom(2, "HD", Pt(3, 0, 0))>>,
                      << <<2>>, <<1>> >>)>>]

\* An acceptor O, bound to two carbons, in line with the donor of B:5, then a ligand far away whose
\* water sits where the O was
Lig3 ==
    [name |-> "lig3",
     poses |-> <<Pose("lig3", 0, <<LigAtom(1, "C", Pt(4, 11, 0)),
                                   LigAtom(2, "OA", Pt(3, 10, 0)),
                                   LigAtom(3, "C", Pt(4, 9, 0))>>,
                      << <<2>>, <<1, 3>>, <<2>> >>),
                 Pose("lig3", 1, <<LigAtom(1, "C", Pt(10, 5, 0)),
                                   Atom(2, "W", Pt(3, 10, 0), "", 0, "W", "water")>>,
                      << <<>>, <<>> >>)>>]

\* A water donating to the acceptor of A:1, then a pose with a silicon atom,
\* an atom type the property table does not hold
Lig4 ==
    [name |-> "lig4",
     poses |-> <<Pose("lig4", 0, <<LigAtom(1, "C", Pt(10, 5, 0)),
                                   Atom(2, "W", Pt(3, 0, 0), "", 0, "W", "water")>>,
                      << <<>>, <<>> >>),
                 Pose("lig4", 1, <<LigAtom(1, "Si", Pt(3, 0, 0))>>, << <<>> >>)>>]

\* A carbon next to the copper ion of the receptor
Lig5 ==
    [name |-> "lig5",
     poses |-> <<Pose("lig5", 0, <<LigAtom(1, "C", Pt(3, 20, 0))>>, << <<>> >>)>>]

\* A carbon far from the rigid receptor, docked with the flexible residue A:7
Lig6 ==
    [name |-> "lig6",
     poses |-> <<Pose("lig6", 0, <<LigAtom(1, "C", Pt(10, 5, 0)),
                                   Atom(2, "C", Pt(10, 6, 0), "A", 7, "CB",
                                        "flexible_residue")>>,
                      << <<>>, <<>> >>)>>]

Molecules == {Lig1, Lig2, Lig3, Lig4, Lig5, Lig6}

\* The longest list of molecules one run call is given
MaxMolecules == 2

\* No run call is made that could take len(self._data) beyond this
MaxData == 4

MoleculeLists ==
    UNION {[1..n -> Molecules] : n \in 1..MaxMolecules}

RECURSIVE CountPoses(_)
CountPoses(molecules) ==
    IF molecules = <<>> THEN 0
    ELSE Len(Head(molecules).poses) + CountPoses(Tail(molecules))

-----------------------------------------------------------------------------
(* FingerprintInteractions.run *)

Range(seq) == {seq[i] : i \in 1..Len(seq)}

\* Lines 143-192: the receptor atoms of one partition, in order; an error
\* raised at one atom ends the loop
\* Lines 149-192, once line 147 has found the receptor atom's property
ClassifyKnownRecAtom(lig_atom, lig_atom_property, lig_hb_vector, rec, rec_atom, rec_atom_property, tmp) ==
    IF rec_atom_property = KeyError THEN [tmp EXCEPT !.raised = KeyError]
    ELSE ClassifyPair(lig_atom, lig_atom_property, lig_hb_vector,
                      rec_atom, rec_atom_property,
                      IF rec_atom_property \in {"hb_acc", "hb_don"}
                      THEN HBVector(rec, rec_atom.idx) ELSE None,
                      tmp)

\* Lines 146-192: one receptor atom against one ligand-side atom
ClassifyRecAtom(lig_atom, lig_atom_property, lig_hb_vector, rec, rec_atom, tmp) ==
    ClassifyKnownRecAtom(lig_atom, lig_atom_property, lig_hb_vector, rec, rec_atom,
                         AtomProperty(rec_atom.atom_type), tmp)

RECURSIVE ClassifyRecAtoms(_, _, _, _, _, _)
ClassifyRecAtoms(rec_atoms, lig_atom, lig_atom_property, lig_hb_vector, rec, tmp) ==
    IF rec_atoms = <<>> \/ tmp.raised # "none" THEN tmp
    ELSE ClassifyRecAtoms(Tail(rec_atoms), lig_atom, lig_atom_property, lig_hb_vector, rec,
                          ClassifyRecAtom(lig_atom, lig_atom_property, lig_hb_vector,
                                          rec, Head(rec_atoms), tmp))

\* Lines 143-144: zip(rec_rigid_flex, rec_rigid_flex_atoms)
RECURSIVE ClassifyPartitions(_, _, _, _, _)
ClassifyPartitions(parts, lig_atom, lig_atom_property, lig_hb_vector, tmp) ==
    IF parts = <<>> \/ tmp.raised # "none" THEN tmp
    ELSE ClassifyPartitions(Tail(parts), lig_atom, lig_atom_property, lig_hb_vector,
                            ClassifyRecAtoms(Head(parts).rec_atoms, lig_atom,
                                             lig_atom_property, lig_hb_vector,
                                             Head(parts).rec, tmp))

\* Lines 124-132: the rigid receptor's atoms within the cutoff and, for a
\* molecule with flexible residues, the pose's flexible atoms within it
RecRigidFlex(receptor, pose, has_flexible_residues_, lig_atom) ==
    <<[rec |-> receptor,
       rec_atoms |-> closest_atoms_from_positions(receptor, lig_atom.xyz, _max_distance,
                                                  {"receptor"})]>>
    \o (IF has_flexible_residues_
        THEN <<[rec |-> pose,
                rec_atoms |-> closest_atoms_from_positions(pose, lig_atom.xyz,
                                                           _max_distance,
                                                           {"flexible_residue"})]>>
        ELSE <<>>)

\* Lines 137-141: the hb vector of a ligand-side donor or acceptor; for any
\* other atom the name is not bound, and no branch reads it
LigHBVector(pose, lig_atom, lig_atom_property) ==
    IF lig_atom_property \in {"hb_acc", "hb_don"}
    THEN HBVector(pose, lig_atom.idx) ELSE None

\* Lines 137-192, once line 135 has found the ligand-side atom's property
ClassifyKnownLigAtom(receptor, pose, has_flexible_residues_, lig_atom, lig_atom_property, tmp) ==
    IF lig_atom_property = KeyError THEN [tmp EXCEPT !.raised = KeyError]
    ELSE ClassifyPartitions(RecRigidFlex(receptor, pose, has_flexible_residues_, lig_atom),
                            lig_atom, lig_atom_property,
                            LigHBVector(pose, lig_atom, lig_atom_property),
                            tmp)

\* Lines 122-192: one ligand-side atom of a pose
ClassifyLigAtom(receptor, pose, has_flexible_residues_, lig_atom, tmp) ==
    ClassifyKnownLigAtom(receptor, pose, has_flexible_residues_, lig_atom,
                         AtomProperty(lig_atom.atom_type), tmp)

RECURSIVE ClassifyLigAtoms(_, _, _, _, _)
ClassifyLigAtoms(receptor, pose, has_flexible_residues_, lig_atoms, tmp) ==
    IF lig_atoms = <<>> \/ tmp.raised # "none" THEN tmp
    ELSE ClassifyLigAtoms(receptor, pose, has_flexible_residues_, Tail(lig_atoms),
                          ClassifyLigAtom(receptor, pose, has_flexible_residues_,
                                          Head(lig_atoms), tmp))

\* Lines 113-192: the three label lists of one pose
ClassifyPose(receptor, pose, has_flexible_residues_) ==
    LET lig_atoms ==
            IF has_water_molecules(pose)
            THEN atoms_by_properties(pose, {"ligand"}) \o atoms_by_properties(pose, {"water"})
            ELSE atoms_by_properties(pose, {"ligand"})
    IN  ClassifyLigAtoms(receptor, pose, has_flexible_residues_, lig_atoms, EmptyTmp)

\* Lines 194-202 without the update of the water vocabulary
RecordPose_no_water_update(st, pose, tmp) ==
    [st EXCEPT
       !.unique.hb = @ \cup Range(tmp.hb),
       !.unique.vdw = @ \cup Range(tmp.vdw),
       !.data = Append(@, [name |-> pose.name, pose_id |-> pose.pose_id,
                           hb |-> Range(tmp.hb), vdw |-> Range(tmp.vdw),
                           water |-> Range(tmp.water)])]

\* Lines 194-202 with the vocabulary assigned instead of updated
RecordPose_assign(st, pose, tmp) ==
    [st EXCEPT
       !.unique.hb = Range(tmp.hb),
       !.unique.vdw = Range(tmp.vdw),
       !.unique.water = Range(tmp.water),
       !.data = Append(@, [name |-> pose.name, pose_id |-> pose.pose_id,
                           hb |-> Range(tmp.hb), vdw |-> Range(tmp.vdw),
                           water |-> Range(tmp.water)])]

\* Lines 194-202: the lists become sets, the vocabulary takes them in and the
\* pose record joins the local list data.  st is [unique, data, raised].  The
\* record's three lists are made from the sets and only ever read as a whole,
\* so they are kept as the sets.
RecordPose(st, pose, tmp) ==
    [st EXCEPT
       !.unique.hb = @ \cup Range(tmp.hb),
       !.unique.vdw = @ \cup Range(tmp.vdw),
       !.unique.water = @ \cup Range(tmp.water),
       !.data = Append(@, [name |-> pose.name, pose_id |-> pose.pose_id,
                           hb |-> Range(tmp.hb), vdw |-> Range(tmp.vdw),
                           water |-> Range(tmp.water)])]

\* Lines 113-202: an error raised while classifying leaves the loops at once
RunPose(st, pose, tmp) ==
    IF tmp.raised # "none" THEN [st EXCEPT !.raised = tmp.raised]
    ELSE RecordPose(st, pose, tmp)

\* ClassifyPose for the receptor given to __init__ and every pose of the pool;
\* a constant, so each pose is classified once however many runs meet it
Classified ==
    [k \in UNION {{<<m.poses[i], has_flexible_residues(m)>> : i \in 1..Len(m.poses)} :
                    m \in Molecules} |->
        ClassifyPose(Receptor, k[1], k[2])]

\* Lines 112-202: the poses of one molecule, in order
RECURSIVE RunPoses(_, _, _)
RunPoses(poses, has_flexible_residues_, st) ==
    IF poses = <<>> \/ st.raised # "none" THEN st
    ELSE RunPoses(Tail(poses), has_flexible_residues_,
                  RunPose(st, Head(poses),
                          Classified[<<Head(poses), has_flexible_residues_>>]))

\* Lines 109-202
RECURSIVE RunMolecules(_, _)
RunMolecules(molecules, st) ==
    IF molecules = <<>> \/ st.raised # "none" THEN st
    ELSE RunMolecules(Tail(molecules),
                      RunPoses(Head(molecules).poses,
                               has_flexible_residues(Head(molecules)), st))

\* Line 204, reached only by a run that raised nothing
ExtendData(self, st) ==
    [self   |-> [self EXCEPT
                   !._unique_interactions = st.unique,
                   !._data = IF st.raised = "none" THEN @ \o st.data ELSE @],
     raised |-> st.raised]

\* run(self, molecules), molecules already a list: the object after the call
\* and what the call raised.  The vocabulary is updated pose by pose, in
\* place; the pose records wait in the local list data.
run(self, molecules) ==
    ExtendData(self, RunMolecules(molecules,
                                  [unique |-> self._unique_interactions, data |-> <<>>,
                                   raised |-> "none"]))

-----------------------------------------------------------------------------
(* FingerprintInteractions.to_dataframe *)

\* Raised by pd.MultiIndex.from_tuples on an empty list
TypeError == "TypeError"

\* The keys of self._unique_interactions, in insertion order
InteTypes == <<"hb", "vdw", "water", "reactive">>

\* The orders in which iterating over a set can yield its elements
Orders(S) ==
    {f \in [1..Cardinality(S) -> S] : \A i, j \in 1..Cardinality(S) : f[i] = f[j] => i = j}

\* One iteration order for each set of the vocabulary
VocabularyOrders(unique) == [hb : Orders(unique.hb), vdw : Orders(unique.vdw),
                             water : Orders(unique.water),
                             reactive : Orders(unique.reactive)]

\* Lines 221-228: the vocabulary laid out as [inte_type, resid] entries, in
\* column order; resid_to_idx_encoder[resid] is the position of the entry
RECURSIVE Layout(_, _, _)
Layout(unique_order, types, acc) ==
    IF types = <<>> THEN acc
    ELSE Layout(unique_order, Tail(types),
                acc \o [i \in 1..Len(unique_order[Head(types)]) |->
                          [inte_type |-> Head(types),
                           resid |-> unique_order[Head(types)][i]]])

\* resid[2:], the label without its 'v_', 'h_' or 'w_' tag
StripTag(resid) == Tail(resid)

\* Line 238: the column indices of a pose's labels; a label without an index
\* is a KeyError
Row(layout, labels) ==
    IF labels \subseteq {layout[j].resid : j \in 1..Len(layout)}
    THEN [raised |-> "none",
          fpi |-> [j \in 1..Len(layout) |-> IF layout[j].resid \in labels THEN 1 ELSE 0]]
    ELSE [raised |-> KeyError, fpi |-> <<>>]

\* Lines 235-239: one row for each pose record
Rows(layout, data) ==
    [i \in 1..Len(data) |-> Row(layout, data[i].hb \cup data[i].vdw \cup data[i].water)]

RECURSIVE SumColumn(_, _, _)
SumColumn(rows, j, i) ==
    IF i > Len(rows) THEN 0 ELSE rows[i].fpi[j] + SumColumn(rows, j, i + 1)

\* The subsequence of seq at the positions of keep, in order
RECURSIVE Take(_, _, _)
Take(seq, keep, j) ==
    IF j > Len(seq) THEN <<>>
    ELSE (IF j \in keep THEN <<seq[j]>> ELSE <<>>) \o Take(seq, keep, j + 1)

\* Line 246 left out: every column stays
Kept_all(layout, rows) == 1..Len(layout)

\* Line 246: the positions of the columns that stay
Kept(layout, rows) == {j \in 1..Len(layout) : SumColumn(rows, j, 1) # 0}

\* Stands for the DataFrame of a call that returned none
NoDataFrame == [columns |-> <<>>, index |-> <<>>, values |-> <<>>]

\* Lines 244-251 with the pose index left 0-based
DataFrame_pose_id(layout, data, rows, keep) ==
    [columns |-> Take([j \in 1..Len(layout) |->
                         <<layout[j].inte_type, StripTag(layout[j].resid)>>], keep, 1),
     index   |-> [i \in 1..Len(data) |-> <<data[i].name, data[i].pose_id>>],
     values  |-> [i \in 1..Len(data) |-> Take(rows[i].fpi, keep, 1)]]

\* Lines 244-251: the DataFrame of the rows, columns pruned and index set
DataFrame(layout, data, rows, keep) ==
    [columns |-> Take([j \in 1..Len(layout) |->
                         <<layout[j].inte_type, StripTag(layout[j].resid)>>], keep, 1),
     index   |-> [i \in 1..Len(data) |-> <<data[i].name, data[i].pose_id + 1>>],
     values  |-> [i \in 1..Len(data) |-> Take(rows[i].fpi, keep, 1)]]

\* Lines 231-251, with the pose records handed over to the table and dropped
Encode_consume(self, layout, rows) ==
    IF layout = <<>>
    THEN [self |-> self, raised |-> TypeError, df |-> NoDataFrame]
    ELSE IF \E i \in 1..Len(rows) : rows[i].raised # "none"
    THEN [self |-> self, raised |-> KeyError, df |-> NoDataFrame]
    ELSE [self |-> [self EXCEPT !._data = <<>>], raised |-> "none",
          df |-> DataFrame(layout, self._data, rows, Kept(layout, rows))]

\* Lines 231-251, for the column layout of lines 221-228
Encode(self, layout, rows) ==
    IF layout = <<>>
    THEN [self |-> self, raised |-> TypeError, df |-> NoDataFrame]
    ELSE IF \E i \in 1..Len(rows) : rows[i].raised # "none"
    THEN [self |-> self, raised |-> KeyError, df |-> NoDataFrame]
    ELSE [self |-> self, raised |-> "none",
          df |-> DataFrame(layout, self._data, rows, Kept(layout, rows))]

EncodeLayout(self, layout) == Encode(self, layout, Rows(layout, self._data))

\* to_dataframe(self) when iterating over the vocabulary sets yields them in
\* unique_order: the object after the call, what the call raised and the
\* DataFrame it returned (columns, index and values)
to_dataframe(self, unique_order) ==
    EncodeLayout(self, Layout(unique_order, InteTypes, <<>>))

-----------------------------------------------------------------------------
(* The object: __init__, run and to_dataframe *)

\* self._receptor is Receptor from __init__ on
Self == [_data |-> _data, _unique_interactions |-> _unique_interactions]

Idle == [state |-> "idle"]

\* __init__
Init ==
    /\ _data = <<>>
    /\ _unique_interactions = [hb |-> {}, vdw |-> {}, water |-> {}, reactive |-> {}]
    /\ call = [op |-> "__init__", molecules |-> <<>>]
    /\ ret = [raised |-> "none", df |-> NoDataFrame]
    /\ hb_in = Idle /\ hb_out = Idle /\ pair_in = Idle /\ pair_out = Idle

Run(molecules) ==
    /\ Len(_data) + CountPoses(molecules) <= MaxData
    /\ \E r \in {run(Self, molecules)} :
           /\ _data' = r.self._data
           /\ _unique_interactions' = r.self._unique_interactions
           /\ call' = [op |-> "run", molecules |-> molecules]
           /\ ret' = [raised |-> r.raised, df |-> NoDataFrame]
    /\ UNCHANGED <<hb_in, hb_out, pair_in, pair_out>>

\* run(molecule): lines 106-107 wrap a single molecule into a list
RunMolecule == \E molecule \in Molecules : Run(<<molecule>>)

\* run([molecule, ...])
RunList == \E molecules \in MoleculeLists : Run(molecules)

ToDataframe ==
    \E unique_order \in VocabularyOrders(_unique_interactions) :
        \E r \in {to_dataframe(Self, unique_order)} :
            /\ _data' = r.self._data
            /\ _unique_interactions' = r.self._unique_interactions
            /\ call' = [op |-> "to_dataframe", molecules |-> <<>>]
            /\ ret' = [raised |-> r.raised, df |-> r.df]
            /\ UNCHANGED <<hb_in, hb_out, pair_in, pair_out>>

Next == RunMolecule \/ RunList \/ ToDataframe

Spec == Init /\ [][Next]_vars

-----------------------------------------------------------------------------
(* The validator on its own: arguments drawn from a grid of points, in the *)
(* three None patterns its four call sites use.                            *)

MaxX == 4
MaxY == 1

Grid == {Pt(x, y, 0) : x \in 0..MaxX, y \in 0..MaxY}

HBInputs ==
    [acc_1 : Grid, acc_2 : Grid \cup {None}, don_1 : Grid \cup {None}, don_2 : Grid]

InitHB ==
    /\ hb_in \in {a \in HBInputs : ~(a.acc_2 = None /\ a.don_1 = None)}
    /\ hb_out = [state |-> "pending"]
    /\ _data = <<>> /\ _unique_interactions = Idle /\ call = Idle /\ ret = Idle
    /\ pair_in = Idle /\ pair_out = Idle

\* The function has no raise statement and numpy arithmetic only warns:
\* every call returns a bool.
CallValidator ==
    /\ hb_out.state = "pending"
    /\ hb_out' = [state  |-> "returned",
                  raised |-> "none",
                  value  |-> _is_valid_hydrogen_bond(hb_in.acc_1, hb_in.acc_2,
                                                     hb_in.don_1, hb_in.don_2,
                                                     _criteria.hb_don)]
    /\ UNCHANGED <<hb_in, _data, _unique_interactions, call, ret, pair_in, pair_out>>

NextHB == CallValidator

SpecHB == InitHB /\ [][NextHB]_vars

-----------------------------------------------------------------------------
(* The classifier on one pair: a ligand-side atom with one bound atom and a *)
(* receptor atom of residue A:12 with one bound atom, the types one for     *)
(* each atom property and the positions drawn from the grid.                *)

PairTypes == {"C", "OA", "HD", "Cl", "Zn", "W", "G0"}

PairRecXYZ == Pt(1, 0, 0)

PairPose(in) ==
    Pose("pair", 0,
         <<Atom(1, in.lig_type, in.lig_xyz, "", 0, "L",
                IF in.lig_type = "W" THEN "water" ELSE "ligand"),
           LigAtom(2, "C", in.lig_bound)>>,
         << <<2>>, <<1>> >>)

PairReceptor(in) ==
    [atoms |-> <<Atom(1, in.rec_type, PairRecXYZ, "A", 12, "OG", "receptor"),
                 Atom(2, "C", in.rec_bound, "A", 12, "CB", "receptor")>>,
     bonds |-> << <<2>>, <<1>> >>]

InitPair ==
    /\ pair_in \in {in \in [lig_type : PairTypes, lig_xyz : Grid, lig_bound : Grid,
                            rec_type : PairTypes, rec_bound : Grid] :
                       NormLE(VSub(PairRecXYZ, in.lig_xyz), _max_distance)}
    /\ pair_out = [state |-> "pending"]
    /\ _data = <<>> /\ _unique_interactions = Idle /\ call = Idle /\ ret = Idle
    /\ hb_in = Idle /\ hb_out = Idle

\* Lines 134-192 for the ligand-side atom and the one receptor atom
ClassifyOnePair ==
    /\ pair_out.state = "pending"
    /\ \E tmp \in {ClassifyRecAtom(
                       PairPose(pair_in).atoms[1],
                       AtomProperty(pair_in.lig_type),
                       LigHBVector(PairPose(pair_in), PairPose(pair_in).atoms[1],
                                   AtomProperty(pair_in.lig_type)),
                       PairReceptor(pair_in), PairReceptor(pair_in).atoms[1],
                       EmptyTmp)} :
           pair_out' = [state |-> "returned", raised |-> tmp.raised,
                        hb |-> tmp.hb, vdw |-> tmp.vdw, water |-> tmp.water]
    /\ UNCHANGED <<pair_in, _data, _unique_interactions, call, ret, hb_in, hb_out>>

NextPair == ClassifyOnePair

SpecPair == InitPair /\ [][NextPair]_vars

-----------------------------------------------------------------------------
(* Properties *)

InteractionTypes == {"hb", "vdw", "water"}

ToDataframeReturned == call.op = "to_dataframe" /\ ret.raised = "none"

\* The label a column stands for: its interaction type's tag put back in front
ColumnLabel(column) ==
    <<CASE column[1] = "hb" -> "h" [] column[1] = "vdw" -> "v"
        [] column[1] = "water" -> "w" [] OTHER -> "?">> \o column[2]

PoseLabels(pose_molecule) == pose_molecule.hb \cup pose_molecule.vdw \cup pose_molecule.water

RecordedLabels == UNION {PoseLabels(_data[i]) : i \in 1..Len(_data)}

Vocabulary == UNION {_unique_interactions[t] : t \in InteractionTypes}

\* C1: every recorded pose's hb, vdw and water label sets are subsets of the
\* vocabulary sets of the same interaction type, after any sequence of run
\* calls, failed ones included, and to_dataframe never raises the KeyError
\* of a pose label without a column index.
C1_PoseLabelsInVocabulary ==
    /\ \A i \in 1..Len(_data) : \A t \in InteractionTypes :
           _data[i][t] \subseteq _unique_interactions[t]
    /\ call.op = "to_dataframe" => ret.raised # KeyError

\* A failed run after a successful one: pose records with labels are in
\* place and the failed run has left a label of its own in the vocabulary.
C1_Witness ==
    /\ call.op = "run" /\ ret.raised = KeyError
    /\ RecordedLabels # {}
    /\ Vocabulary # RecordedLabels

\* C2: with a non-empty vocabulary to_dataframe returns one row for each pose
\* record, in order, indexed by (name, pose_id + 1), and each cell is 1 when
\* the column's label is among the pose's labels and 0 when it is not.
C2_OneHotRows ==
    (call.op = "to_dataframe" /\ Vocabulary # {}) =>
        /\ ret.raised = "none"
        /\ Len(ret.df.index) = Len(_data)
        /\ Len(ret.df.values) = Len(_data)
        /\ \A i \in 1..Len(_data) :
               /\ ret.df.index[i] = <<_data[i].name, _data[i].pose_id + 1>>
               /\ Len(ret.df.values[i]) = Len(ret.df.columns)
               /\ \A j \in 1..Len(ret.df.columns) :
                      ret.df.values[i][j] =
                          IF ColumnLabel(ret.df.columns[j]) \in PoseLabels(_data[i])
                          THEN 1 ELSE 0

\* A table with a column, a row holding a 1 and the all-zero row of a pose
\* without contacts.
C2_Witness ==
    /\ ToDataframeReturned
    /\ Len(ret.df.columns) >= 1
    /\ \E i, k \in 1..Len(_data) :
           /\ PoseLabels(_data[i]) = {}
           /\ \A j \in 1..Len(ret.df.columns) : ret.df.values[i][j] = 0
           /\ \E j \in 1..Len(ret.df.columns) : ret.df.values[k][j] = 1

\* C3: no step removes a label from the vocabulary of any interaction type.
C3_VocabularyMonotonic ==
    [][\A t \in InteractionTypes : _unique_interactions[t] \subseteq _unique_interactions'[t]]_vars

\* A run that failed after earlier runs had recorded poses: the vocabulary
\* holds labels of all three interaction types, gathered over several runs.
C3_Witness ==
    /\ call.op = "run" /\ ret.raised = KeyError /\ Len(_data) >= 2
    /\ \A t \in InteractionTypes : _unique_interactions[t] # {}

SameCells(df1, df2) ==
    /\ df1.index = df2.index
    /\ Range(df1.columns) = Range(df2.columns)
    /\ Len(df1.columns) = Len(df2.columns)
    /\ \A i \in 1..Len(df1.index) : \A j1 \in 1..Len(df1.columns) :
           \A j2 \in 1..Len(df2.columns) :
               df1.columns[j1] = df2.columns[j2] => df1.values[i][j1] = df2.values[i][j2]

\* C4: a to_dataframe call leaves the pose records and the vocabulary as they
\* were, and a to_dataframe call that follows another one returns a table
\* with the same rows, the same set of columns and the same value in every
\* (pose, label) cell.
C4_ToDataframePure ==
    [][call'.op = "to_dataframe" =>
          /\ _data' = _data
          /\ _unique_interactions' = _unique_interactions
          /\ ToDataframeReturned => (ret'.raised = "none" /\ SameCells(ret.df, ret'.df))]_vars

\* A returned table whose two vdw columns come in the order B:5, A:1; the
\* order A:1, B:5 is the other possible outcome of the same call.
C4_Witness ==
    /\ ToDataframeReturned
    /\ \E j \in 1..Len(ret.df.columns) :
           /\ j + 1 <= Len(ret.df.columns)
           /\ ret.df.columns[j] = <<"vdw", <<"B", 5>>>>
           /\ ret.df.columns[j + 1] = <<"vdw", <<"A", 1>>>>
    /\ Len(_data) >= 2

\* C5: to_dataframe never fails, whatever the state of the accumulator.
C5_ToDataframeNeverFails ==
    call.op = "to_dataframe" => ret.raised = "none"

UnknownType(atom) == atom.atom_type \notin DOMAIN atom_property_definitions

LigandSide(pose) ==
    {pose.atoms[i] : i \in {k \in 1..Len(pose.atoms) : pose.atoms[k].role \in {"ligand", "water"}}}

Within(a, b) ==
    LET dx == a.xyz.n[1] - b.xyz.n[1]
        dy == a.xyz.n[2] - b.xyz.n[2]
        dz == a.xyz.n[3] - b.xyz.n[3]
    IN  100 * (dx * dx + dy * dy + dz * dz) <= 42 * 42

\* The receptor atoms a pose's ligand-side atoms get from the cutoff queries
Candidates(molecule, pose) ==
    {Receptor.atoms[i] : i \in 1..Len(Receptor.atoms)} \cup
    {pose.atoms[i] : i \in {k \in 1..Len(pose.atoms) :
                              /\ pose.atoms[k].role = "flexible_residue"
                              /\ \E p \in 1..Len(molecule.poses) :
                                     \E a \in 1..Len(molecule.poses[p].atoms) :
                                         molecule.poses[p].atoms[a].role = "flexible_residue"}}

MeetsUnknownType(molecules) ==
    \E m \in 1..Len(molecules) : \E p \in 1..Len(molecules[m].poses) :
        \E lig \in LigandSide(molecules[m].poses[p]) :
            \/ UnknownType(lig)
            \/ \E rec \in Candidates(molecules[m], molecules[m].poses[p]) :
                   Within(lig, rec) /\ UnknownType(rec)

\* The chain and residue of the receptor atoms of unknown type
UnknownResidues ==
    {<<Receptor.atoms[i].chain, Receptor.atoms[i].resid>> :
        i \in {k \in 1..Len(Receptor.atoms) : UnknownType(Receptor.atoms[k])}}

\* C6: a run that meets an atom of a type the property table does not hold
\* fails with the error of the failed lookup and appends no pose record, and
\* no label of the vocabulary or of a pose record names the residue of such
\* an atom.
C6_UnknownAtomTypeFails ==
    [][(call'.op = "run" /\ MeetsUnknownType(call'.molecules)) =>
          /\ ret'.raised = KeyError
          /\ _data' = _data
          /\ \A label \in Vocabulary' \cup RecordedLabels' :
                 <<label[2], label[3]>> \notin UnknownResidues]_vars

\* The run of lig1 and lig5: lig1's poses put their label into the
\* vocabulary, then lig5's carbon meets the copper ion and the run fails.
C6_Witness ==
    /\ call.op = "run" /\ call.molecules = <<Lig1, Lig5>>
    /\ ret.raised = KeyError
    /\ _data = <<>>
    /\ <<"v", "A", 1>> \in _unique_interactions.vdw

\* The squared length of b - a, for points with denominator 1
D2(a, b) ==
    (b.n[1] - a.n[1]) * (b.n[1] - a.n[1]) + (b.n[2] - a.n[2]) * (b.n[2] - a.n[2])
    + (b.n[3] - a.n[3]) * (b.n[3] - a.n[3])

\* (p - vertex) . (q - vertex)
DotAt(vertex, p, q) ==
    (p.n[1] - vertex.n[1]) * (q.n[1] - vertex.n[1])
    + (p.n[2] - vertex.n[2]) * (q.n[2] - vertex.n[2])
    + (p.n[3] - vertex.n[3]) * (q.n[3] - vertex.n[3])

\* The angle p-vertex-q is defined and at least 90 degrees
AtLeast90(vertex, p, q) ==
    /\ p # vertex /\ q # vertex
    /\ DotAt(vertex, p, q) <= 0

\* The angle p-vertex-q is defined and at least 120 degrees: cos <= -1/2
AtLeast120(vertex, p, q) ==
    /\ p # vertex /\ q # vertex
    /\ DotAt(vertex, p, q) <= 0
    /\ 4 * DotAt(vertex, p, q) * DotAt(vertex, p, q) >= D2(vertex, p) * D2(vertex, q)

\* An angle computation is reached with a vector of zero magnitude
DegenerateCall(in) ==
    /\ 100 * D2(in.acc_1, in.don_2) <= 32 * 32
    /\ \/ in.don_1 # None /\ (in.don_2 = in.don_1 \/ in.acc_1 = in.don_1)
       \/ in.acc_2 # None /\ in.acc_2 = in.acc_1
       \/ in.acc_2 # None /\ in.don_1 = None /\ in.don_2 = in.acc_1

\* C7: a zero-magnitude vector in the angle computation makes the validator
\* fail with DegenerateGeometry.
C7_DegenerateGeometryFails ==
    (hb_out.state = "returned" /\ DegenerateCall(hb_in)) =>
        hb_out.raised = "DegenerateGeometry"

\* C8: no column of the returned table sums to zero, and a vocabulary label
\* that occurs in no pose record has no column.
C8_NoZeroColumn ==
    ToDataframeReturned =>
        /\ \A j \in 1..Len(ret.df.columns) :
               \E i \in 1..Len(ret.df.values) : ret.df.values[i][j] # 0
        /\ \A label \in Vocabulary \ RecordedLabels :
               \A j \in 1..Len(ret.df.columns) : ColumnLabel(ret.df.columns[j]) # label

\* A returned table with columns, for a vocabulary holding a label that a
\* failed run left behind and no pose record has.
C8_Witness ==
    /\ ToDataframeReturned
    /\ Len(ret.df.columns) >= 1
    /\ Vocabulary \ RecordedLabels # {}

PairAccepted(in) ==
    LET lig == atom_property_definitions[in.lig_type]
        rec == atom_property_definitions[in.rec_type]
    IN  CASE lig = "hb_don" /\ rec = "hb_acc" ->
                 _is_valid_hydrogen_bond(PairRecXYZ, in.rec_bound, in.lig_xyz, in.lig_bound,
                                         <<32, 120, 90>>)
          [] lig = "hb_acc" /\ rec = "hb_don" ->
                 _is_valid_hydrogen_bond(in.lig_xyz, in.lig_bound, PairRecXYZ, in.rec_bound,
                                         <<32, 120, 90>>)
          [] lig = "water" /\ rec = "hb_don" ->
                 _is_valid_hydrogen_bond(in.lig_xyz, None, PairRecXYZ, in.rec_bound,
                                         <<32, 120, 90>>)
          [] lig = "water" /\ rec = "hb_acc" ->
                 _is_valid_hydrogen_bond(PairRecXYZ, in.rec_bound, None, in.lig_xyz,
                                         <<32, 120, 90>>)
          [] OTHER -> FALSE

\* C9: the classifier raises nothing and emits at most one label for a pair:
\* the vdW label v_chain:resid for (vdw, vdw); the hb label
\* h_chain:resid:atomname for (hb_don, hb_acc) and (hb_acc, hb_don) exactly
\* when the validator accepts; the water label w_chain:resid for
\* (water, hb_don) and (water, hb_acc) exactly when the validator accepts;
\* nothing for any other pair of properties.
C9_ClassifierCaseMatch ==
    pair_out.state = "returned" =>
        LET lig == atom_property_definitions[pair_in.lig_type]
            rec == atom_property_definitions[pair_in.rec_type]
        IN  /\ pair_out.raised = "none"
            /\ Len(pair_out.hb) + Len(pair_out.vdw) + Len(pair_out.water) <= 1
            /\ pair_out.vdw = IF lig = "vdw" /\ rec = "vdw"
                              THEN << <<"v", "A", 12>> >> ELSE <<>>
            /\ pair_out.hb = IF /\ <<lig, rec>> \in {<<"hb_don", "hb_acc">>,
                                                     <<"hb_acc", "hb_don">>}
                                /\ PairAccepted(pair_in)
                             THEN << <<"h", "A", 12, "OG">> >> ELSE <<>>
            /\ pair_out.water = IF /\ lig = "water" /\ rec \in {"hb_don", "hb_acc"}
                                   /\ PairAccepted(pair_in)
                                THEN << <<"w", "A", 12>> >> ELSE <<>>

\* A water accepted by a receptor donor: one water label, without atom name.
C9_Witness ==
    /\ pair_out.state = "returned"
    /\ pair_in.lig_type = "W" /\ pair_in.rec_type = "HD"
    /\ pair_out.water = << <<"w", "A", 12>> >>
    /\ pair_out.hb = <<>> /\ pair_out.vdw = <<>>

=============================================================================
